---------------------------- MODULE Spec2Model ----------------------------
(***************************************************************************)
(* Smart-Social knowledge graph routes                                     *)
(* (backend/src/routes/recommendations.ts, second module of the file),     *)
(* specification Spec; content routes (unnamed/part_004), specification    *)
(* ContentSpec; feed routes (backend/src/routes/feed.ts), specification    *)
(* FeedSpec; authentication routes (backend/src/routes/auth.ts with        *)
(* backend/src/middleware/auth.ts), specification AuthSpec.                *)
(*                                                                         *)
(* The state is the module-level graphStore (nodes, edges, metadata), the  *)
(* POST /extract requests that are waiting on the AI service, the clock    *)
(* read by `new Date()`, and the response last sent.  JavaScript runs each *)
(* handler to its next await without interleaving, so one action is one    *)
(* such run.  Numbers with a fraction are kept as integers: importance,    *)
(* weight and confidence are scaled by 100.                                *)
(***************************************************************************)
EXTENDS Integers, Sequences, FiniteSets, TLC

VARIABLES nodes, edges, metadata, pending, now, last, contentStore, waiting,
          feedStore, lastHackerNewsSync, syncing,
          users, tokenBlacklist, registering

vars == <<nodes, edges, metadata, pending, now, last, contentStore, waiting,
          feedStore, lastHackerNewsSync, syncing,
          users, tokenBlacklist, registering>>

\* the state of the content routes, which the graph routes never touch
contentVars == <<contentStore, waiting>>

\* the state of the graph routes, which the content routes never touch
graphVars == <<nodes, edges, metadata, pending>>

\* the state of the feed routes: contentStore and lastHackerNewsSync of
\* feed.ts and the calls of syncContent that are waiting on the network
feedVars == <<feedStore, lastHackerNewsSync, syncing>>

\* the state of the authentication routes: users and tokenBlacklist of
\* auth.ts and the registrations that are waiting on the password hash
authVars == <<users, tokenBlacklist, registering>>

-----------------------------------------------------------------------------
(* Bounds of the model *)

\* POST /extract responses processed in one behaviour (each reads the clock once)
MaxIngestions == 2
\* entity names in one extraction result
MaxEntities == 2
\* POST /extract requests waiting on the AI service at the same time
MaxPending == 2

-----------------------------------------------------------------------------
(* JavaScript strings.  TLC evaluates Len, SubSeq, Head, Tail and \o on    *)
(* strings, so a string of the program is a string of the model.           *)

UpperChars == "ABCDEFGHIJKLMNOPQRSTUVWXYZ"
LowerChars == "abcdefghijklmnopqrstuvwxyz"

CharAt(s, i) == SubSeq(s, i, i)

\* the lower-case letter of each upper-case letter
LowerMap ==
  [c \in {CharAt(UpperChars, i) : i \in 1..Len(UpperChars)} |->
     CharAt(LowerChars, CHOOSE i \in 1..Len(UpperChars) : CharAt(UpperChars, i) = c)]

\* one character of String.prototype.toLowerCase
LowerChar(c) == IF c \in DOMAIN LowerMap THEN LowerMap[c] ELSE c

\* String.prototype.toLowerCase, character by character (by halves, to keep
\* the evaluation shallow)
RECURSIVE LowerCaseOf(_)
LowerCaseOf(s) ==
  IF Len(s) = 0 THEN ""
  ELSE IF Len(s) = 1 THEN LowerChar(s)
  ELSE LowerCaseOf(SubSeq(s, 1, Len(s) \div 2))
         \o LowerCaseOf(SubSeq(s, Len(s) \div 2 + 1, Len(s)))

\* the texts of the seeded nodes, computed once
SeedTexts ==
  {"Artificial Intelligence", "Machine Learning", "OpenAI",
   "Field of computer science focused on creating intelligent machines",
   "Subset of AI that enables computers to learn without explicit programming",
   "AI research and deployment company"}

SeedTextsLower == [s \in SeedTexts |-> LowerCaseOf(s)]

toLowerCase(s) == IF s \in SeedTexts THEN SeedTextsLower[s] ELSE LowerCaseOf(s)

\* the characters matched by \s that the inputs of the model use
IsSpace(c) == c \in {" ", "\t"}

\* s.replace(/\s+/g, "-"): every maximal run of white space becomes one "-"
RECURSIVE ReplaceSpaces(_)
ReplaceSpaces(s) ==
  IF s = "" THEN ""
  ELSE IF IsSpace(Head(s))
       THEN IF Len(s) > 1 /\ IsSpace(CharAt(s, 2))
            THEN ReplaceSpaces(Tail(s))
            ELSE "-" \o ReplaceSpaces(Tail(s))
       ELSE Head(s) \o ReplaceSpaces(Tail(s))

\* String.prototype.includes
includes(s, t) ==
  \E i \in 0..(Len(s) - Len(t)) : SubSeq(s, i + 1, i + Len(t)) = t

\* String.prototype.startsWith
startsWith(s, t) == Len(t) <= Len(s) /\ SubSeq(s, 1, Len(t)) = t

-----------------------------------------------------------------------------
(* The seeded graph store *)

\* new Date("2024-01-01"), before the module is loaded
SeedCreatedAt == 0
\* new Date() while the module is loaded
LoadTime == 1

SeedNode(id, type, label, description, importance) ==
  [id |-> id, type |-> type, label |-> label, name |-> label,
   hasDescription |-> TRUE, description |-> description,
   importance |-> importance,
   createdAt |-> SeedCreatedAt, updatedAt |-> LoadTime]

SeedNodes ==
  << SeedNode("ai-1", "topic", "Artificial Intelligence",
        "Field of computer science focused on creating intelligent machines", 95),
     SeedNode("ml-1", "topic", "Machine Learning",
        "Subset of AI that enables computers to learn without explicit programming", 90),
     SeedNode("openai-1", "organization", "OpenAI",
        "AI research and deployment company", 85) >>

SeedEdge(id, source, target, type, weight, confidence) ==
  [id |-> id, source |-> source, target |-> target, type |-> type,
   weight |-> weight, confidence |-> confidence,
   createdAt |-> SeedCreatedAt, source_content |-> ""]

SeedEdges ==
  << SeedEdge("edge-1", "ml-1", "ai-1", "part_of", 90, 95),
     SeedEdge("edge-2", "openai-1", "ai-1", "related_to", 80, 90) >>

SeedMetadata ==
  [totalNodes |-> 3, totalEdges |-> 2, lastUpdated |-> LoadTime, version |-> "1.0.0"]

-----------------------------------------------------------------------------
(* Inputs *)

\* req.body.contentId of POST /extract; "" is a request without one
ContentIds == {"", "ml-1", "topics-ai"}

\* keys of the `entities` object the AI service answers with
TypeKeys == {"topics", "people"}

\* an element of an entity list that is no string (a number, null, an object)
NonString == "<non-string>"

EntityNames == {"AI", "Ai  Lab"}

EntityValues == EntityNames \cup {NonString}

Entity ==
  {[type |-> "topics", name |-> "AI"], [type |-> "topics", name |-> "Ai  Lab"],
   [type |-> "people", name |-> "AI"], [type |-> "topics", name |-> NonString]}

\* Object.entries(entities) with the inner loop over each entityList, as the
\* sequence of (type, entityName) pairs the two loops visit: the pairs of one
\* key are visited together
Grouped(es) ==
  \A i, j \in 1..Len(es) :
    (i < j /\ es[i].type = es[j].type) =>
      \A k \in i..j : es[k].type = es[i].type

EntityLists ==
  {es \in UNION {[1..n -> Entity] : n \in 0..MaxEntities} : Grouped(es)}

-----------------------------------------------------------------------------
(* POST /extract *)

NoResponse ==
  [op |-> "none", status |-> 0, req |-> <<>>, nodes |-> <<>>, edges |-> <<>>,
   newNodes |-> 0, newEdges |-> 0, metadata |-> <<>>]

NodeIdOf(type, entityName) ==
  type \o "-" \o ReplaceSpaces(toLowerCase(entityName))

EdgeIdOf(contentId, nodeId) == "edge-" \o contentId \o "-" \o nodeId

DefaultImportance == 50

NewNode(nodeId, type, entityName, t) ==
  [id |-> nodeId, type |-> type, label |-> entityName, name |-> entityName,
   hasDescription |-> FALSE, description |-> "",
   importance |-> DefaultImportance,
   createdAt |-> t, updatedAt |-> t]

NewEdge(edgeId, contentId, nodeId, t) ==
  [id |-> edgeId, source |-> contentId, target |-> nodeId, type |-> "mentions",
   weight |-> 70, confidence |-> 80,
   createdAt |-> t, source_content |-> ""]

\* mutant: the check for an existing node never finds one
HasNodeNever(ns, nodeId) == FALSE

\* graphStore.nodes.find((n) => n.id === nodeId) finds a node
HasNode(ns, nodeId) == \E i \in 1..Len(ns) : ns[i].id = nodeId

\* mutant: the check for an existing edge never finds one
HasEdgeNever(egs, edgeId) == FALSE

\* mutant: the check for an existing edge looks at the last edge only
HasEdgeLastOnly(egs, edgeId) == egs # <<>> /\ egs[Len(egs)].id = edgeId

\* graphStore.edges.find((e) => e.id === edgeId) finds an edge
HasEdge(egs, edgeId) == \E i \in 1..Len(egs) : egs[i].id = edgeId

\* the node creation of one entity
AddNode(st, e, t) ==
  LET nodeId == NodeIdOf(e.type, e.name) IN
  IF ~HasNode(st.nodes, nodeId)
  THEN [st EXCEPT !.nodes = Append(@, NewNode(nodeId, e.type, e.name, t)),
                  !.newNodes = @ + 1]
  ELSE st

\* the edge creation of one entity
AddEdge(st, e, contentId, t) ==
  LET nodeId == NodeIdOf(e.type, e.name)
      edgeId == EdgeIdOf(contentId, nodeId) IN
  IF contentId # "" /\ ~HasEdge(st.edges, edgeId)
  THEN [st EXCEPT !.edges = Append(@, NewEdge(edgeId, contentId, nodeId, t)),
                  !.newEdges = @ + 1]
  ELSE st

\* The two loops over the extracted entities, from entity i on.  A name that
\* is no string throws at entityName.toLowerCase(): the loops stop there and
\* what was pushed before stays in the store.
RECURSIVE ProcessEntities(_, _, _, _, _)
ProcessEntities(st, es, i, contentId, t) ==
  IF i > Len(es) THEN st
  ELSE IF es[i].name = NonString THEN [st EXCEPT !.threw = TRUE]
  ELSE ProcessEntities(AddEdge(AddNode(st, es[i], t), es[i], contentId, t),
                       es, i + 1, contentId, t)

\* the handler up to `await axios.post(...)`, with a text in the body
ExtractRequest(contentId) ==
  /\ Len(pending) < MaxPending
  /\ (now - LoadTime) + Len(pending) < MaxIngestions
  /\ pending' = Append(pending, contentId)
  /\ UNCHANGED <<nodes, edges, metadata, now, last>>
  /\ UNCHANGED <<contentVars, feedVars, authVars>>

\* the handler with no text in the body: 400
ExtractNoText ==
  /\ last' = [NoResponse EXCEPT !.op = "extract", !.status = 400]
  /\ UNCHANGED <<nodes, edges, metadata, pending, now>>
  /\ UNCHANGED <<contentVars, feedVars, authVars>>

Remove(s, k) == SubSeq(s, 1, k - 1) \o SubSeq(s, k + 1, Len(s))

\* the AI service answers request k with `entities`: the rest of the handler
ExtractResponse(k, es) ==
  /\ k \in 1..Len(pending)
  /\ now < LoadTime + MaxIngestions
  /\ UNCHANGED <<contentVars, feedVars, authVars>>
  /\ \E st \in {ProcessEntities([nodes |-> nodes, edges |-> edges, newNodes |-> 0,
                                  newEdges |-> 0, threw |-> FALSE],
                                 es, 1, pending[k], now + 1)} :
        /\ now' = now + 1
        /\ nodes' = st.nodes
        /\ edges' = st.edges
        /\ pending' = Remove(pending, k)
        /\ IF st.threw
           THEN /\ metadata' = metadata
                /\ last' = [NoResponse EXCEPT !.op = "extract", !.status = 503,
                                              !.req = <<pending[k], es>>]
           ELSE /\ metadata' = [metadata EXCEPT !.totalNodes = Len(st.nodes),
                                                !.totalEdges = Len(st.edges),
                                                !.lastUpdated = now + 1]
                /\ last' = [NoResponse EXCEPT !.op = "extract", !.status = 200,
                                              !.req = <<pending[k], es>>,
                                              !.newNodes = st.newNodes,
                                              !.newEdges = st.newEdges]

\* mutant: a failed call is answered like an extraction that found nothing
ExtractFailsSwallowed(k) ==
  /\ k \in 1..Len(pending)
  /\ pending' = Remove(pending, k)
  /\ last' = [NoResponse EXCEPT !.op = "extract", !.status = 200,
                                !.req = <<pending[k]>>]
  /\ UNCHANGED <<nodes, edges, metadata, now>>
  /\ UNCHANGED <<contentVars, feedVars, authVars>>

\* the AI service call fails or times out (or answers without `entities`): 503
ExtractFails(k) ==
  /\ k \in 1..Len(pending)
  /\ pending' = Remove(pending, k)
  /\ last' = [NoResponse EXCEPT !.op = "extract", !.status = 503,
                                !.req = <<pending[k]>>]
  /\ UNCHANGED <<nodes, edges, metadata, now>>
  /\ UNCHANGED <<contentVars, feedVars, authVars>>

-----------------------------------------------------------------------------
(* GET /node/:id *)

\* query parameter that is not given
NoParam == -1

FindsTarget(e, connected) == e.source \in connected /\ e.target \notin connected

\* mutant: edges are followed from their source only
FindsSourceNever(e, connected) == FALSE

FindsSource(e, connected) == e.target \in connected /\ e.source \notin connected

BothConnected(e, connected) == e.source \in connected /\ e.target \in connected

\* the edges one scan of graphStore.edges pushes to relevantEdges, in order
RelevantInRound(egs, connected) ==
  SelectSeq(egs, LAMBDA e : \/ FindsTarget(e, connected)
                            \/ FindsSource(e, connected)
                            \/ BothConnected(e, connected))

\* newConnections after one scan of graphStore.edges
NewConnections(egs, connected) ==
  {egs[i].target : i \in {j \in 1..Len(egs) : FindsTarget(egs[j], connected)}}
    \cup
  {egs[i].source : i \in {j \in 1..Len(egs) : ~FindsTarget(egs[j], connected)
                                              /\ FindsSource(egs[j], connected)}}

\* mutant: the new connections replace the connected nodes
MergeConnectionsReplacing(connected, new) == new

\* newConnections.forEach((nodeId) => connectedNodes.add(nodeId))
MergeConnections(connected, new) == connected \cup new

\* the loop `for (currentDepth = 0; currentDepth < depth; currentDepth++)`
RECURSIVE Traverse(_, _, _, _, _)
Traverse(egs, connected, relevant, currentDepth, depth) ==
  IF currentDepth >= depth
  THEN [connectedNodes |-> connected, relevantEdges |-> relevant]
  ELSE Traverse(egs,
                MergeConnections(connected, NewConnections(egs, connected)),
                relevant \o RelevantInRound(egs, connected),
                currentDepth + 1, depth)

\* the subgraph of the response
Subgraph(ns, egs, id, depth) ==
  LET r == Traverse(egs, {id}, <<>>, 0, depth) IN
  [nodes |-> SelectSeq(ns, LAMBDA n : n.id \in r.connectedNodes),
   edges |-> r.relevantEdges]

\* mutant: the validation lets depth 0 through
DepthValidFromZero(depthParam) == depthParam = NoParam \/ depthParam \in 0..3

\* query("depth").optional().isInt({ min: 1, max: 3 })
DepthValid(depthParam) == depthParam = NoParam \/ depthParam \in 1..3

\* parseInt(req.query.depth) || 1
DepthOf(depthParam) ==
  IF depthParam = NoParam \/ depthParam = 0 THEN 1 ELSE depthParam

GetNode(id, depthParam) ==
  /\ last' =
       IF ~DepthValid(depthParam)
       THEN [NoResponse EXCEPT !.op = "node", !.status = 400,
                               !.req = <<id, depthParam>>]
       ELSE IF ~HasNode(nodes, id)
       THEN [NoResponse EXCEPT !.op = "node", !.status = 404,
                               !.req = <<id, depthParam>>]
       ELSE LET sub == Subgraph(nodes, edges, id, DepthOf(depthParam)) IN
            [NoResponse EXCEPT !.op = "node", !.status = 200,
                               !.req = <<id, depthParam>>,
                               !.nodes = sub.nodes, !.edges = sub.edges]
  /\ UNCHANGED <<nodes, edges, metadata, pending, now>>
  /\ UNCHANGED <<contentVars, feedVars, authVars>>

-----------------------------------------------------------------------------
(* Array.prototype.sort is stable (ES2019; the image is node:18): an        *)
(* insertion sort gives its result.                                        *)

Last(s) == s[Len(s)]
Front(s) == SubSeq(s, 1, Len(s) - 1)

\* mutant: the comparator sorts by ascending importance
CompareImportanceAscending(a, b) == a.importance - b.importance

\* (a, b) => b.properties.importance - a.properties.importance
CompareImportance(a, b) == b.importance - a.importance

RECURSIVE InsertByImportance(_, _)
InsertByImportance(s, x) ==
  IF s = <<>> THEN <<x>>
  ELSE IF CompareImportance(Last(s), x) > 0
       THEN Append(InsertByImportance(Front(s), x), Last(s))
       ELSE Append(s, x)

RECURSIVE SortFrom(_, _, _)
SortFrom(sorted, s, i) ==
  IF i > Len(s) THEN sorted
  ELSE SortFrom(InsertByImportance(sorted, s[i]), s, i + 1)

\* nodes.sort((a, b) => b.properties.importance - a.properties.importance)
SortByImportance(s) == SortFrom(<<>>, s, 1)

-----------------------------------------------------------------------------
(* `types` query parameter: (types as string).split(",").map((t) => t.trim()) *)

RECURSIVE Trim(_)
Trim(s) ==
  IF s = "" THEN ""
  ELSE IF IsSpace(Head(s)) THEN Trim(Tail(s))
  ELSE IF IsSpace(CharAt(s, Len(s))) THEN Trim(SubSeq(s, 1, Len(s) - 1))
  ELSE s

\* s.split(","), the piece being read in `cur`
RECURSIVE SplitFrom(_, _, _)
SplitFrom(s, i, cur) ==
  IF i > Len(s) THEN <<cur>>
  ELSE IF CharAt(s, i) = "," THEN <<cur>> \o SplitFrom(s, i + 1, "")
  ELSE SplitFrom(s, i + 1, cur \o CharAt(s, i))

TypeList(types) ==
  LET parts == SplitFrom(types, 1, "") IN
  {Trim(parts[i]) : i \in 1..Len(parts)}

\* the nodes whose ids are kept, as new Set(nodes.map((n) => n.id))
IdsOf(ns) == {ns[i].id : i \in 1..Len(ns)}

\* edges.filter((edge) => nodeIds.has(edge.source) && nodeIds.has(edge.target))
EdgesBetween(egs, nodeIds) ==
  SelectSeq(egs, LAMBDA e : e.source \in nodeIds /\ e.target \in nodeIds)

\* mutant: the text filter lets every node through
MatchesTermAlways(n, searchTerm) == TRUE

\* the text filter of GET /knowledge and GET /search
MatchesTerm(n, searchTerm) ==
  \/ includes(toLowerCase(n.label), searchTerm)
  \/ includes(toLowerCase(n.name), searchTerm)
  \/ /\ n.hasDescription
     /\ n.description # ""
     /\ includes(toLowerCase(n.description), searchTerm)

\* mutant: slice(0, limit + 1)
TakeOneMore(s, n) == SubSeq(s, 1, IF n + 1 < Len(s) THEN n + 1 ELSE Len(s))

\* slice(0, n)
Take(s, n) == SubSeq(s, 1, IF n < Len(s) THEN n ELSE Len(s))

-----------------------------------------------------------------------------
(* GET /knowledge *)

\* query("limit").optional().isInt({ min: 1, max: 1000 })
KnowledgeLimitValid(limitParam) == limitParam = NoParam \/ limitParam \in 1..1000

\* const { limit = 100 } = req.query
KnowledgeLimitOf(limitParam) == IF limitParam = NoParam THEN 100 ELSE limitParam

\* The handler's three steps on its local `nodes` and `edges`.  `shared` says
\* whether `nodes` still is the array graphStore.nodes: filter() makes a new
\* array, sort() sorts the array it is called on.
KnowledgeTypes(g, types) ==
  IF types # ""
  THEN LET typeList == TypeList(types)
           ns == SelectSeq(g.nodes, LAMBDA n : n.type \in typeList) IN
       [nodes |-> ns, edges |-> EdgesBetween(g.edges, IdsOf(ns)), shared |-> FALSE]
  ELSE g

KnowledgeSearch(g, search) ==
  IF search # ""
  THEN LET searchTerm == toLowerCase(search)
           ns == SelectSeq(g.nodes, LAMBDA n : MatchesTerm(n, searchTerm)) IN
       [nodes |-> ns, edges |-> EdgesBetween(g.edges, IdsOf(ns)), shared |-> FALSE]
  ELSE g

\* mutant: the store itself is cut to the limit
KnowledgeLimitTruncating(g, limit) ==
  IF Len(g.nodes) > limit
  THEN LET ns == Take(SortByImportance(g.nodes), limit) IN
       [nodes |-> ns, edges |-> EdgesBetween(g.edges, IdsOf(ns)),
        shared |-> g.shared, store |-> ns]
  ELSE [nodes |-> g.nodes, edges |-> g.edges, shared |-> FALSE, store |-> g.nodes]

KnowledgeLimit(g, limit) ==
  IF Len(g.nodes) > limit
  THEN LET sorted == SortByImportance(g.nodes)
           ns == Take(sorted, limit) IN
       [nodes |-> ns, edges |-> EdgesBetween(g.edges, IdsOf(ns)),
        shared |-> g.shared, store |-> sorted]
  ELSE [nodes |-> g.nodes, edges |-> g.edges, shared |-> FALSE, store |-> g.nodes]

Knowledge(ns, egs, limit, types, search) ==
  KnowledgeLimit(
    KnowledgeSearch(
      KnowledgeTypes([nodes |-> ns, edges |-> egs, shared |-> TRUE], types),
      search),
    limit)

\* { ...graphStore.metadata, filteredNodes, filteredEdges } of the response
KnowledgeMetadata(g) ==
  [totalNodes |-> metadata.totalNodes, totalEdges |-> metadata.totalEdges,
   lastUpdated |-> metadata.lastUpdated, version |-> metadata.version,
   filteredNodes |-> Len(g.nodes), filteredEdges |-> Len(g.edges)]

GetKnowledge(limitParam, types, search) ==
  IF ~KnowledgeLimitValid(limitParam)
  THEN /\ last' = [NoResponse EXCEPT !.op = "knowledge", !.status = 400,
                                     !.req = <<limitParam, types, search>>]
       /\ UNCHANGED <<nodes, edges, metadata, pending, now>>
       /\ UNCHANGED <<contentVars, feedVars, authVars>>
  ELSE \E g \in {Knowledge(nodes, edges, KnowledgeLimitOf(limitParam), types, search)} :
         /\ last' = [NoResponse EXCEPT !.op = "knowledge", !.status = 200,
                                       !.req = <<limitParam, types, search>>,
                                       !.nodes = g.nodes, !.edges = g.edges,
                                       !.metadata = KnowledgeMetadata(g)]
         /\ nodes' = IF g.shared THEN g.store ELSE nodes
         /\ UNCHANGED <<edges, metadata, pending, now>>
         /\ UNCHANGED <<contentVars, feedVars, authVars>>

-----------------------------------------------------------------------------
(* GET /search *)

\* mutant: the description counts for more than a label prefix
calculateSearchRelevanceByDescription(n, searchTerm) ==
  (IF toLowerCase(n.label) = searchTerm THEN 100
   ELSE IF startsWith(toLowerCase(n.label), searchTerm) THEN 50
   ELSE IF includes(toLowerCase(n.label), searchTerm) THEN 25
   ELSE 0)
  +
  (IF n.hasDescription /\ includes(toLowerCase(n.description), searchTerm)
   THEN 60 ELSE 0)

calculateSearchRelevance(n, searchTerm) ==
  (IF toLowerCase(n.label) = searchTerm THEN 100
   ELSE IF startsWith(toLowerCase(n.label), searchTerm) THEN 50
   ELSE IF includes(toLowerCase(n.label), searchTerm) THEN 25
   ELSE 0)
  +
  (IF n.hasDescription /\ includes(toLowerCase(n.description), searchTerm)
   THEN 10 ELSE 0)

\* mutant: the comparator leaves the relevance out
CompareSearchByImportanceOnly(a, b, searchTerm) == b.importance - a.importance

\* the comparator of the sort in GET /search
CompareSearch(a, b, searchTerm) ==
  LET aRelevance == calculateSearchRelevance(a, searchTerm)
      bRelevance == calculateSearchRelevance(b, searchTerm) IN
  IF aRelevance # bRelevance THEN bRelevance - aRelevance
  ELSE b.importance - a.importance

RECURSIVE InsertBySearch(_, _, _)
InsertBySearch(s, x, searchTerm) ==
  IF s = <<>> THEN <<x>>
  ELSE IF CompareSearch(Last(s), x, searchTerm) > 0
       THEN Append(InsertBySearch(Front(s), x, searchTerm), Last(s))
       ELSE Append(s, x)

RECURSIVE SortSearchFrom(_, _, _, _)
SortSearchFrom(sorted, s, i, searchTerm) ==
  IF i > Len(s) THEN sorted
  ELSE SortSearchFrom(InsertBySearch(sorted, s[i], searchTerm), s, i + 1, searchTerm)

SortBySearch(s, searchTerm) == SortSearchFrom(<<>>, s, 1, searchTerm)

\* query("limit").optional().isInt({ min: 1, max: 50 })
SearchLimitValid(limitParam) == limitParam = NoParam \/ limitParam \in 1..50

\* const { limit = 20 } = req.query
SearchLimitOf(limitParam) == IF limitParam = NoParam THEN 20 ELSE limitParam

\* the filter by text, then by types
SearchCandidates(ns, q, types) ==
  LET searchTerm == toLowerCase(q)
      typeList == TypeList(types)
      matching == SelectSeq(ns, LAMBDA n : MatchesTerm(n, searchTerm)) IN
  IF types # ""
  THEN SelectSeq(matching, LAMBDA n : n.type \in typeList)
  ELSE matching

Search(ns, q, types, limit) ==
  LET searchTerm == toLowerCase(q) IN
  Take(SortBySearch(SearchCandidates(ns, q, types), searchTerm), limit)

GetSearch(q, types, limitParam) ==
  /\ last' =
       IF q = "" \/ ~SearchLimitValid(limitParam)
       THEN [NoResponse EXCEPT !.op = "search", !.status = 400,
                               !.req = <<q, types, limitParam>>]
       ELSE [NoResponse EXCEPT !.op = "search", !.status = 200,
                               !.req = <<q, types, limitParam>>,
                               !.nodes = Search(nodes, q, types,
                                                SearchLimitOf(limitParam))]
  /\ UNCHANGED <<nodes, edges, metadata, pending, now>>
  /\ UNCHANGED <<contentVars, feedVars, authVars>>

\* requests: <<id, depth>> of GET /node/:id
NodeRequests ==
  {<<"ml-1", NoParam>>, <<"ml-1", 2>>, <<"ml-1", 3>>, <<"ml-1", 0>>,
   <<"topics-ai", 2>>, <<"nope", NoParam>>}

\* requests: <<limit, types, search>> of GET /knowledge
KnowledgeRequests ==
  {<<NoParam, "", "">>, <<3, "", "">>, <<3, "topics, topic", "">>, <<3, "", "AI">>,
   <<NoParam, "topics, topic", "AI">>, <<0, "", "">>}

\* requests: <<q, types, limit>> of GET /search
SearchRequests ==
  {<<"AI", "", NoParam>>, <<"AI", "", 2>>, <<"AI", "topics, topic", 2>>,
   <<"", "", NoParam>>, <<"AI", "", 0>>}

-----------------------------------------------------------------------------

Init ==
  /\ nodes = SeedNodes
  /\ edges = SeedEdges
  /\ metadata = SeedMetadata
  /\ pending = <<>>
  /\ now = LoadTime
  /\ last = NoResponse
  /\ contentStore = <<>>
  /\ waiting = <<>>
  /\ feedStore = <<>>
  /\ lastHackerNewsSync = 0
  /\ syncing = <<>>
  /\ users = <<>>
  /\ tokenBlacklist = {}
  /\ registering = <<>>

Next ==
  \/ \E c \in ContentIds : ExtractRequest(c)
  \/ ExtractNoText
  \/ \E k \in 1..MaxPending, es \in EntityLists : ExtractResponse(k, es)
  \/ \E k \in 1..MaxPending : ExtractFails(k)
  \/ \E r \in NodeRequests : GetNode(r[1], r[2])
  \/ \E r \in KnowledgeRequests : GetKnowledge(r[1], r[2], r[3])
  \/ \E r \in SearchRequests : GetSearch(r[1], r[2], r[3])

Spec == Init /\ [][Next]_vars

-----------------------------------------------------------------------------
(* The content routes (unnamed/part_004): the module-level contentStore,   *)
(* the GET /similar/:id requests that are waiting on the AI service, and   *)
(* the same clock and last response.  The clock counts hours here, and a   *)
(* number with a fraction is the exact ratio num/den of two integers;      *)
(* `score` is scaled by 100.                                               *)

\* content items in the store
MaxItems == 3
\* view, like, bookmark and share requests in one behaviour
MaxInteractions == 1
\* hours that pass in one behaviour
MaxHours == 1
\* GET /similar/:id requests waiting on the AI service at the same time
MaxWaiting == 1
\* results in one answer of the AI service
MaxResults == 2

RECURSIVE GCD(_, _)
GCD(a, b) == IF b = 0 THEN a ELSE GCD(b, a % b)

\* the ratio n/d, d > 0, in lowest terms
Rat(n, d) ==
  LET g == GCD(IF n < 0 THEN -n ELSE n, d) IN
  [kind |-> "finite", num |-> n \div g, den |-> d \div g]

\* the IEEE values a division by zero and 0 * Infinity give
Infinity == [kind |-> "inf", num |-> 1, den |-> 0]
NotANumber == [kind |-> "nan", num |-> 0, den |-> 0]

\* a < b on numbers (false when either is NaN)
Less(a, b) ==
  IF a.kind = "nan" \/ b.kind = "nan" THEN FALSE
  ELSE IF a.kind = "inf" THEN FALSE
  ELSE IF b.kind = "inf" THEN TRUE
  ELSE a.num * b.den < b.num * a.den

\* a === b on numbers
Same(a, b) ==
  IF a.kind = "nan" \/ b.kind = "nan" THEN FALSE
  ELSE IF a.kind = "inf" \/ b.kind = "inf" THEN a.kind = b.kind
  ELSE a.num * b.den = b.num * a.den

\* a * b on numbers that are not negative
Times(a, b) ==
  IF a.kind = "nan" \/ b.kind = "nan" THEN NotANumber
  ELSE IF a.kind = "inf" \/ b.kind = "inf"
       THEN IF (a.kind = "finite" /\ a.num = 0) \/ (b.kind = "finite" /\ b.num = 0)
            THEN NotANumber ELSE Infinity
       ELSE Rat(a.num * b.num, a.den * b.den)

\* Math.max(a, b)
Max(a, b) ==
  IF a.kind = "nan" \/ b.kind = "nan" THEN NotANumber
  ELSE IF Less(a, b) THEN b ELSE a

\* the sign of b - a as a sort comparator reads it: NaN counts as 0
SignOfDifference(b, a) ==
  IF Less(a, b) THEN 1 ELSE IF Less(b, a) THEN -1 ELSE 0

\* Array.prototype.sort is stable: with a comparator that orders the
\* elements consistently, an element comes after the elements the comparator
\* puts before it and after the elements it ties with that stood before it.
\* `before` gives these positions for each position of the array.
Sorted(s, before) ==
  [r \in 1..Len(s) |-> s[CHOOSE i \in 1..Len(s) : Cardinality(before[i]) = r - 1]]

Interactions(views, likes, bookmarks, shares) ==
  [views |-> views, likes |-> likes, bookmarks |-> bookmarks, shares |-> shares]

ContentItem(id, tags, publishedAt, score, interactions) ==
  [id |-> id, tags |-> tags, publishedAt |-> publishedAt, score |-> score,
   interactions |-> interactions]

\* the items a store is made of: published a day ago, four days ago, in an
\* hour, just now with score 0, and in ten hours
Items ==
  << ContentItem("c1", <<"AI", "ML">>, LoadTime - 24, 100, Interactions(100, 10, 2, 1)),
     ContentItem("c2", <<"ml", "ai", "AI">>, LoadTime - 95, 100, Interactions(100, 10, 2, 1)),
     ContentItem("c3", <<>>, LoadTime + 1, 50, Interactions(0, 1, 0, 0)),
     ContentItem("c4", <<"ML", "Web">>, LoadTime, 0, Interactions(10, 0, 0, 0)),
     ContentItem("c5", <<"Web">>, LoadTime + 10, 100, Interactions(0, 0, 0, 1)) >>

\* the stores: up to MaxItems of the items, in the order above
Stores ==
  {s \in UNION {[1..n -> 1..Len(Items)] : n \in 1..MaxItems} :
     \A i, j \in 1..Len(s) : i < j => s[i] < s[j]}

StoreOf(s) == [i \in 1..Len(s) |-> Items[s[i]]]

\* contentStore.find((item) => item.id === id) finds an item
HasItem(store, id) == \E i \in 1..Len(store) : store[i].id = id

\* the position of the item find() gives
IndexOf(store, id) == CHOOSE i \in 1..Len(store) :
  store[i].id = id /\ \A j \in 1..(i - 1) : store[j].id # id

ContentReply(op, status, req, items, fallback) ==
  [op |-> op, status |-> status, req |-> req, items |-> items, fallback |-> fallback]

\* the view, like, bookmark and share requests answered so far
Raised(store) ==
  LET of(i) == store[i].interactions
      was(i) == Items[CHOOSE k \in 1..Len(Items) : Items[k].id = store[i].id].interactions
      RECURSIVE Sum(_)
      Sum(i) == IF i = 0 THEN 0
                ELSE Sum(i - 1) + (of(i).views - was(i).views) + (of(i).likes - was(i).likes)
                       + (of(i).bookmarks - was(i).bookmarks) + (of(i).shares - was(i).shares)
  IN Sum(Len(store))

\* the view, like, bookmark or share request for `id` is answered: 404 for an
\* unknown id, else 200
InteractionReply(op, id) ==
  ContentReply(op, IF HasItem(contentStore, id) THEN 200 ELSE 404, <<id>>, <<>>, FALSE)

\* the store with the interactions of the item find() gives replaced
WithInteractions(store, id, interactions) ==
  IF HasItem(store, id)
  THEN [store EXCEPT ![IndexOf(store, id)].interactions = interactions]
  ELSE store

InteractionsOf(store, id) == store[IndexOf(store, id)].interactions

\* GET /content/:id: content.interactions.views++
GetContent(id) ==
  /\ Raised(contentStore) < MaxInteractions
  /\ contentStore' =
       IF HasItem(contentStore, id)
       THEN WithInteractions(contentStore, id,
              [InteractionsOf(contentStore, id) EXCEPT !.views = @ + 1])
       ELSE contentStore
  /\ last' = InteractionReply("content", id)
  /\ UNCHANGED <<waiting, now>>
  /\ UNCHANGED <<graphVars, feedVars, authVars>>

\* POST /bookmark/:id with a valid token: content.interactions.bookmarks++
Bookmark(id) ==
  /\ Raised(contentStore) < MaxInteractions
  /\ contentStore' =
       IF HasItem(contentStore, id)
       THEN WithInteractions(contentStore, id,
              [InteractionsOf(contentStore, id) EXCEPT !.bookmarks = @ + 1])
       ELSE contentStore
  /\ last' = InteractionReply("bookmark", id)
  /\ UNCHANGED <<waiting, now>>
  /\ UNCHANGED <<graphVars, feedVars, authVars>>

\* POST /like/:id with a valid token: content.interactions.likes++
Like(id) ==
  /\ Raised(contentStore) < MaxInteractions
  /\ contentStore' =
       IF HasItem(contentStore, id)
       THEN WithInteractions(contentStore, id,
              [InteractionsOf(contentStore, id) EXCEPT !.likes = @ + 1])
       ELSE contentStore
  /\ last' = InteractionReply("like", id)
  /\ UNCHANGED <<waiting, now>>
  /\ UNCHANGED <<graphVars, feedVars, authVars>>

\* POST /share/:id with a valid token: content.interactions.shares++
Share(id) ==
  /\ Raised(contentStore) < MaxInteractions
  /\ contentStore' =
       IF HasItem(contentStore, id)
       THEN WithInteractions(contentStore, id,
              [InteractionsOf(contentStore, id) EXCEPT !.shares = @ + 1])
       ELSE contentStore
  /\ last' = InteractionReply("share", id)
  /\ UNCHANGED <<waiting, now>>
  /\ UNCHANGED <<graphVars, feedVars, authVars>>

\* an hour passes
Tick ==
  /\ now < LoadTime + MaxHours
  /\ now' = now + 1
  /\ UNCHANGED <<contentStore, waiting, last>>
  /\ UNCHANGED <<graphVars, feedVars, authVars>>

\* mutant: the tags are compared as they are written
TagSetCaseSensitive(tags) == {tags[i] : i \in 1..Len(tags)}

\* new Set(tags.map((tag) => tag.toLowerCase()))
TagSet(tags) == {toLowerCase(tags[i]) : i \in 1..Len(tags)}

calculateTagSimilarity(tags1, tags2) ==
  LET set1 == TagSet(tags1)
      set2 == TagSet(tags2)
      intersection == {tag \in set1 : tag \in set2}
      union == set1 \cup set2 IN
  IF Cardinality(union) > 0
  THEN Rat(Cardinality(intersection), Cardinality(union))
  ELSE Rat(0, 1)

\* the age of the content in hours
ageInHours(content, t) == t - content.publishedAt

\* mutant: the views are left out of the score
interactionScoreWithoutViews(interactions) ==
  Rat(10 * interactions.likes + 20 * interactions.bookmarks
        + 30 * interactions.shares, 10)

\* mutant: the weights of bookmarks and shares are exchanged
interactionScoreSharesAsBookmarks(interactions) ==
  Rat(interactions.views + 10 * interactions.likes + 30 * interactions.bookmarks
        + 20 * interactions.shares, 10)

interactionScore(interactions) ==
  Rat(interactions.views + 10 * interactions.likes + 20 * interactions.bookmarks
        + 30 * interactions.shares, 10)

\* 1 / (1 + age * 0.1)
Decay(age) ==
  IF 10 + age = 0 THEN Infinity
  ELSE IF 10 + age > 0 THEN Rat(10, 10 + age)
  ELSE Rat(-10, -(10 + age))

\* mutant: no floor under the decay
ageDecayNoFloor(age) == Decay(age)

\* Math.max(0.1, 1 / (1 + ageInHours * 0.1))
ageDecay(age) == Max(Rat(1, 10), Decay(age))

calculateTrendingScore(content, t) ==
  Times(Times(interactionScore(content.interactions),
              ageDecay(ageInHours(content, t))),
        Rat(content.score, 100))

\* GET /trending
Timeframes == {"hour", "day", "week", "month"}

\* the hours of a time frame
HoursOf(timeframe) ==
  CASE timeframe = "hour" -> 1
    [] timeframe = "day" -> 24
    [] timeframe = "week" -> 7 * 24
    [] timeframe = "month" -> 30 * 24

\* query("limit").optional().isInt({ min: 1, max: 100 })
TrendingLimitValid(limitParam) == limitParam = NoParam \/ limitParam \in 1..100

\* const { timeframe = "day", limit = 20 } = req.query
TimeframeOf(timeframe) == IF timeframe = "" THEN "day" ELSE timeframe
TrendingLimitOf(limitParam) == IF limitParam = NoParam THEN 20 ELSE limitParam

\* (a, b) => b.trendingScore - a.trendingScore
CompareTrending(a, b) == SignOfDifference(b.trendingScore, a.trendingScore)

\* .sort((a, b) => b.trendingScore - a.trendingScore)
SortByTrending(s) ==
  Sorted(s, [i \in 1..Len(s) |->
               {j \in 1..Len(s) : \/ CompareTrending(s[j], s[i]) < 0
                                   \/ (CompareTrending(s[j], s[i]) = 0 /\ j < i)}])

Trending(store, t, timeframe, limit) ==
  LET filteredContent ==
        SelectSeq(store, LAMBDA item : item.publishedAt >= t - HoursOf(timeframe))
      scored == [i \in 1..Len(filteredContent) |->
                   [trendingScore |-> calculateTrendingScore(filteredContent[i], t)]
                     @@ filteredContent[i]] IN
  Take(SortByTrending(scored), limit)

GetTrending(timeframe, limitParam) ==
  /\ last' =
       IF (timeframe # "" /\ timeframe \notin Timeframes) \/ ~TrendingLimitValid(limitParam)
       THEN ContentReply("trending", 400, <<timeframe, limitParam>>, <<>>, FALSE)
       ELSE ContentReply("trending", 200, <<timeframe, limitParam>>,
                         Trending(contentStore, now, TimeframeOf(timeframe),
                                  TrendingLimitOf(limitParam)),
                         FALSE)
  /\ UNCHANGED <<contentStore, waiting, now>>
  /\ UNCHANGED <<graphVars, feedVars, authVars>>

\* GET /similar/:id

\* query("limit").optional().isInt({ min: 1, max: 50 })
SimilarLimitValid(limitParam) == limitParam = NoParam \/ limitParam \in 1..50

\* const { limit = 10 } = req.query
SimilarLimitOf(limitParam) == IF limitParam = NoParam THEN 10 ELSE limitParam

\* the handler up to `await axios.post(...)`
SimilarRequest(id, limitParam) ==
  /\ IF ~SimilarLimitValid(limitParam)
     THEN /\ last' = ContentReply("similar", 400, <<id, limitParam>>, <<>>, FALSE)
          /\ UNCHANGED waiting
     ELSE IF ~HasItem(contentStore, id)
     THEN /\ last' = ContentReply("similar", 404, <<id, limitParam>>, <<>>, FALSE)
          /\ UNCHANGED waiting
     ELSE /\ Len(waiting) < MaxWaiting
          /\ waiting' = Append(waiting, <<id, limitParam>>)
          /\ UNCHANGED last
  /\ UNCHANGED <<contentStore, now>>
  /\ UNCHANGED <<graphVars, feedVars, authVars>>

\* the ids the AI service may rank
ResultIds == {"c1", "c2", "gone"}

ResultLists == UNION {[1..n -> ResultIds] : n \in 0..MaxResults}

\* the AI service answers request k with `results`
SimilarResponse(k, results) ==
  /\ k \in 1..Len(waiting)
  /\ LET limit == SimilarLimitOf(waiting[k][2])
         picked == Take(results, limit)
         found == SelectSeq(picked, LAMBDA id : HasItem(contentStore, id)) IN
     last' = ContentReply("similar", 200, waiting[k],
                          [i \in 1..Len(found) |->
                             contentStore[IndexOf(contentStore, found[i])]],
                          FALSE)
  /\ waiting' = Remove(waiting, k)
  /\ UNCHANGED <<contentStore, now>>
  /\ UNCHANGED <<graphVars, feedVars, authVars>>

\* mutant: the least similar items come first
CompareSimilarityAscending(a, b) == SignOfDifference(a.similarity, b.similarity)

\* (a, b) => b.similarity - a.similarity
CompareSimilarity(a, b) == SignOfDifference(b.similarity, a.similarity)

\* .sort((a, b) => b.similarity - a.similarity)
SortBySimilarity(s) ==
  Sorted(s, [i \in 1..Len(s) |->
               {j \in 1..Len(s) : \/ CompareSimilarity(s[j], s[i]) < 0
                                   \/ (CompareSimilarity(s[j], s[i]) = 0 /\ j < i)}])

\* the fallback: the other items by tag similarity to the target
SimilarFallback(store, id, limit) ==
  LET targetContent == store[IndexOf(store, id)]
      others == SelectSeq(store, LAMBDA item : item.id # id)
      scored == [i \in 1..Len(others) |->
                   [item |-> others[i],
                    similarity |-> calculateTagSimilarity(targetContent.tags,
                                                          others[i].tags)]]
      top == Take(SortBySimilarity(scored), limit) IN
  [i \in 1..Len(top) |-> top[i].item]

\* the call to the AI service fails or times out: the fallback answers
SimilarFails(k) ==
  /\ k \in 1..Len(waiting)
  /\ last' = ContentReply("similar", 200, waiting[k],
                          SimilarFallback(contentStore, waiting[k][1],
                                          SimilarLimitOf(waiting[k][2])),
                          TRUE)
  /\ waiting' = Remove(waiting, k)
  /\ UNCHANGED <<contentStore, now>>
  /\ UNCHANGED <<graphVars, feedVars, authVars>>

\* requests: ids of the content routes
ContentRequestIds == {"c1", "c3", "c4", "nope"}

\* requests: <<timeframe, limit>> of GET /trending
TrendingRequests ==
  {<<"", NoParam>>, <<"month", NoParam>>, <<"month", 1>>, <<"year", NoParam>>}

\* requests: <<id, limit>> of GET /similar/:id
SimilarRequests ==
  {<<"c1", NoParam>>, <<"c1", 1>>, <<"c3", NoParam>>, <<"c1", 0>>, <<"nope", 1>>}

ContentInit ==
  /\ nodes = SeedNodes
  /\ edges = SeedEdges
  /\ metadata = SeedMetadata
  /\ pending = <<>>
  /\ now = LoadTime
  /\ last = NoResponse
  /\ contentStore \in {StoreOf(s) : s \in Stores}
  /\ waiting = <<>>
  /\ feedStore = <<>>
  /\ lastHackerNewsSync = 0
  /\ syncing = <<>>
  /\ users = <<>>
  /\ tokenBlacklist = {}
  /\ registering = <<>>

ContentNext ==
  \/ \E id \in ContentRequestIds : GetContent(id)
  \/ \E id \in ContentRequestIds : Bookmark(id)
  \/ \E id \in ContentRequestIds : Like(id)
  \/ \E id \in ContentRequestIds : Share(id)
  \/ Tick
  \/ \E r \in TrendingRequests : GetTrending(r[1], r[2])
  \/ \E r \in SimilarRequests : SimilarRequest(r[1], r[2])
  \/ \E k \in 1..MaxWaiting, results \in ResultLists : SimilarResponse(k, results)
  \/ \E k \in 1..MaxWaiting : SimilarFails(k)

ContentSpec == ContentInit /\ [][ContentNext]_vars

-----------------------------------------------------------------------------
(* The feed routes (backend/src/routes/feed.ts): the module-level          *)
(* contentStore (feedStore here) and lastHackerNewsSync, and the calls of  *)
(* syncContent that are waiting on the RSS fetch or on the AI filter.  The *)
(* clock counts minutes here and relevance scores are whole numbers.  The  *)
(* sort comparator reads Date.now() for each item; the model reads the     *)
(* clock once for the whole sort.                                          *)

\* 30 * 60 * 1000 ms
SyncInterval == 30

\* calls of syncContent waiting on the network at the same time
MaxSyncing == 2
\* minutes the clock advances in one behaviour
MaxFeedMinutes == 60
\* minutes the clock advances in one step
TickMinutes == SyncInterval

\* 7 * 24 * 60 * 60 * 1000 ms
WeekMinutes == 10080
\* 24 * 60 * 60 * 1000 ms
DayMinutes == 1440

\* Date.now() when the first request arrives: more than 30 minutes after the
\* epoch, which is where lastHackerNewsSync starts
FeedLoadTime == SyncInterval + 1

\* an item of the RSS feed as fetchHackerNewsRSS maps it
FeedEntry(url, publishedAt) ==
  [url |-> url, publishedAt |-> publishedAt, isFiltered |-> FALSE,
   relevanceScore |-> 0]

\* what the RSS feed answers: nothing (as a failed fetch gives []), two
\* items, or an item without link and an item under a link the feed had
\* before, which is a week old 40 minutes after the first request
FetchResults ==
  { <<>>,
    << FeedEntry("a", FeedLoadTime - 10), FeedEntry("b", FeedLoadTime - 4000) >>,
    << FeedEntry("", FeedLoadTime - 20),
       FeedEntry("a", FeedLoadTime + 40 - WeekMinutes) >> }

\* the answers of the AI service for n items, and its failure: for each item
\* whether it is among filteredItems and its score (a missing score reads
\* as 0)
AiOutcomes(n) ==
  {[failed |-> TRUE, verdicts |-> <<>>]}
    \cup {[failed |-> FALSE, verdicts |-> v] :
            v \in [1..n -> { [kept |-> TRUE, score |-> 74],
                             [kept |-> TRUE, score |-> 0],
                             [kept |-> FALSE, score |-> 74] }]}

\* the neutral score of the catch branch
DefaultRelevance == 75

filterContentWithAI(items, outcome) ==
  [i \in 1..Len(items) |->
     IF outcome.failed
     THEN [items[i] EXCEPT !.isFiltered = FALSE, !.relevanceScore = DefaultRelevance]
     ELSE [items[i] EXCEPT !.isFiltered = ~outcome.verdicts[i].kept,
                           !.relevanceScore = outcome.verdicts[i].score]]

\* contentStore.findIndex((existing) => existing.url === item.url), 0 for -1
FindIndexByUrl(store, url) ==
  IF \E i \in 1..Len(store) : store[i].url = url
  THEN CHOOSE i \in 1..Len(store) :
         /\ store[i].url = url
         /\ \A j \in 1..(i - 1) : store[j].url # url
  ELSE 0

\* the forEach of syncContent: each item replaces the stored item with its
\* url or is pushed
RECURSIVE UpsertAll(_, _)
UpsertAll(store, items) ==
  IF items = <<>> THEN store
  ELSE LET item == Head(items)
           existingIndex == FindIndexByUrl(store, item.url) IN
       UpsertAll(IF existingIndex = 0 THEN Append(store, item)
                 ELSE [store EXCEPT ![existingIndex] = item],
                 Tail(items))

\* contentStore.filter((item) => item.publishedAt > weekAgo)
KeepRecent(store, t) ==
  SelectSeq(store, LAMBDA item : item.publishedAt > t - WeekMinutes)

\* the sync condition of syncContent
SyncDue(t) == t - lastHackerNewsSync > SyncInterval

\* mutant: the age lowers the score
compositeScoreNewestFirst(item, t) ==
  7 * DayMinutes * item.relevanceScore - 3 * (t - item.publishedAt)

\* relevanceScore * 0.7 + ageInDays * 0.3, scaled by 10 * DayMinutes
compositeScore(item, t) ==
  7 * DayMinutes * item.relevanceScore + 3 * (t - item.publishedAt)

\* filteredItems.sort((a, b) => scoreB - scoreA): an item comes after the
\* items of higher score and after the items of its score that stood before it
SortFeed(s, t) ==
  Sorted(s, [i \in 1..Len(s) |->
               {j \in 1..Len(s) :
                  \/ compositeScore(s[j], t) > compositeScore(s[i], t)
                  \/ (compositeScore(s[j], t) = compositeScore(s[i], t) /\ j < i)}])

\* the items GET / answers on its first page
Feed(store, t, limit, minRelevance) ==
  LET unfiltered == SelectSeq(store, LAMBDA item : ~item.isFiltered)
      filteredItems ==
        IF minRelevance > 0
        THEN SelectSeq(unfiltered, LAMBDA item : item.relevanceScore >= minRelevance)
        ELSE unfiltered IN
  [items |-> Take(SortFeed(filteredItems, t), limit), total |-> Len(filteredItems)]

FeedReply(op, req, store, t) ==
  IF op = "feed"
  THEN LET \* Number(req.query.limit) || 20
            limit == IF req[1] = NoParam \/ req[1] = 0 THEN 20 ELSE req[1]
            \* Number(req.query.minRelevance) || 0
            minRelevance == IF req[2] = NoParam THEN 0 ELSE req[2]
            f == Feed(store, t, limit, minRelevance) IN
       [op |-> "feed", status |-> 200, req |-> req,
        items |-> f.items, total |-> f.total, itemCount |-> Len(store)]
  ELSE [op |-> "sync", status |-> 200, req |-> req,
        items |-> <<>>, total |-> 0, itemCount |-> Len(store)]

\* GET /: when the sync is due, syncContent has read the clock and waits on
\* the RSS fetch; otherwise the handler answers at once
FeedRequest(limitParam, minParam) ==
  /\ IF SyncDue(now)
     THEN /\ Len(syncing) < MaxSyncing
          /\ syncing' = Append(syncing, [op |-> "feed",
                                         req |-> <<limitParam, minParam>>,
                                         start |-> now, phase |-> "fetch",
                                         items |-> <<>>])
          /\ UNCHANGED last
     ELSE /\ last' = FeedReply("feed", <<limitParam, minParam>>, feedStore, now)
          /\ UNCHANGED syncing
  /\ UNCHANGED <<feedStore, lastHackerNewsSync, now>>
  /\ UNCHANGED <<graphVars, contentVars, authVars>>

\* POST /sync
SyncRequest ==
  /\ IF SyncDue(now)
     THEN /\ Len(syncing) < MaxSyncing
          /\ syncing' = Append(syncing, [op |-> "sync", req |-> <<>>,
                                         start |-> now, phase |-> "fetch",
                                         items |-> <<>>])
          /\ UNCHANGED last
     ELSE /\ last' = FeedReply("sync", <<>>, feedStore, now)
          /\ UNCHANGED syncing
  /\ UNCHANGED <<feedStore, lastHackerNewsSync, now>>
  /\ UNCHANGED <<graphVars, contentVars, authVars>>

\* fetchHackerNewsRSS resolves; the call waits on the AI service next
FetchDone(k, fetched) ==
  /\ k \in 1..Len(syncing)
  /\ syncing[k].phase = "fetch"
  /\ syncing' = [syncing EXCEPT ![k].phase = "filter", ![k].items = fetched]
  /\ UNCHANGED <<feedStore, lastHackerNewsSync, now, last>>
  /\ UNCHANGED <<graphVars, contentVars, authVars>>

\* filterContentWithAI resolves: the rest of syncContent and of the handler
FilterDone(k) ==
  /\ k \in 1..Len(syncing)
  /\ syncing[k].phase = "filter"
  /\ \E outcome \in AiOutcomes(Len(syncing[k].items)) :
       LET filteredItems == filterContentWithAI(syncing[k].items, outcome)
           store == KeepRecent(UpsertAll(feedStore, filteredItems), now) IN
       /\ feedStore' = store
       /\ lastHackerNewsSync' = syncing[k].start
       /\ last' = FeedReply(syncing[k].op, syncing[k].req, store, now)
  /\ syncing' = Remove(syncing, k)
  /\ UNCHANGED now
  /\ UNCHANGED <<graphVars, contentVars, authVars>>

\* time passes
FeedTick ==
  /\ now + TickMinutes <= FeedLoadTime + MaxFeedMinutes
  /\ now' = now + TickMinutes
  /\ UNCHANGED <<feedStore, lastHackerNewsSync, syncing, last>>
  /\ UNCHANGED <<graphVars, contentVars, authVars>>

FeedRequests == {<<NoParam, NoParam>>, <<1, 74>>}

FeedInit ==
  /\ nodes = SeedNodes
  /\ edges = SeedEdges
  /\ metadata = SeedMetadata
  /\ pending = <<>>
  /\ now = FeedLoadTime
  /\ last = NoResponse
  /\ contentStore = <<>>
  /\ waiting = <<>>
  /\ feedStore = <<>>
  /\ lastHackerNewsSync = 0
  /\ syncing = <<>>
  /\ users = <<>>
  /\ tokenBlacklist = {}
  /\ registering = <<>>

FeedNext ==
  \/ \E r \in FeedRequests : FeedRequest(r[1], r[2])
  \/ SyncRequest
  \/ \E k \in 1..MaxSyncing, fetched \in FetchResults : FetchDone(k, fetched)
  \/ \E k \in 1..MaxSyncing : FilterDone(k)
  \/ FeedTick

FeedSpec == FeedInit /\ [][FeedNext]_vars

-----------------------------------------------------------------------------
(* The authentication routes (backend/src/routes/auth.ts) and the          *)
(* authenticateToken middleware (backend/src/middleware/auth.ts): the      *)
(* module-level users map, in insertion order, and tokenBlacklist, and the *)
(* registrations that are waiting on the password hash.  A token is a      *)
(* string; jwt.verify accepts the tokens that are signed with              *)
(* config.auth.jwtSecret and have not expired.                             *)

\* POST /register requests waiting on bcrypt at the same time
MaxRegistering == 2
\* users stored or being registered in one behaviour
MaxUsers == 3

\* body("password").isLength({ min: 6 })
MinPassword == 6
\* body("name").trim().isLength({ min: 2, max: 50 })
MinName == 2
MaxName == 50

HasCharOf(s, chars) ==
  \E i \in 1..Len(s) : \E k \in 1..Len(chars) : CharAt(s, i) = CharAt(chars, k)

\* isEmail(), for the addresses of the model
isEmail(s) ==
  \E i \in 2..(Len(s) - 1) :
    /\ CharAt(s, i) = "@"
    /\ \A j \in 1..Len(s) : j # i => CharAt(s, j) \notin {"@", " "}

\* normalizeEmail(): the address in lower case
normalizeEmail(s) == LowerCaseOf(s)

\* isLength({ min: 6 }).matches(/^(?=.*[a-z])(?=.*[A-Z])(?=.*\d)/)
PasswordValid(p) ==
  /\ Len(p) >= MinPassword
  /\ HasCharOf(p, LowerChars)
  /\ HasCharOf(p, UpperChars)
  /\ HasCharOf(p, "0123456789")

\* validateRegister; the names of the model have no white space at their ends
RegisterValid(email, password, name) ==
  /\ isEmail(email)
  /\ PasswordValid(password)
  /\ Len(name) >= MinName
  /\ Len(name) <= MaxName

\* validateLogin
LoginValid(email, password) == isEmail(email) /\ Len(password) >= MinPassword

\* Array.from(users.values()).find((u) => u.email === email) finds a user
HasUser(us, email) == \E i \in 1..Len(us) : us[i].email = email

UserOf(us, email) ==
  us[CHOOSE i \in 1..Len(us) :
       /\ us[i].email = email
       /\ \A j \in 1..(i - 1) : us[j].email # email]

\* config.jwtSecret of routes/auth.ts: the config object has auth.jwtSecret
\* and no jwtSecret, so jwt.sign gets undefined and throws
SigningSecret == "undefined"

\* generateToken returns a token, or throws without a secret
TokenGenerated == SigningSecret # "undefined"

\* jwt.verify(token, config.auth.jwtSecret) returns: t1 and t2 are the tokens
\* signed with config.auth.jwtSecret that have not expired
Verifies(token) == token \in {"t1", "t2"}

\* the authorization headers of the requests
Headers == {"", "Basic t1", "Bearer t1", "Bearer t2", "Bearer t3"}

\* authHeader.substring(7)
BearerToken(authHeader) == SubSeq(authHeader, 8, Len(authHeader))

\* authenticateToken calls next() without error
Authenticated(authHeader) ==
  /\ authHeader # ""
  /\ startsWith(authHeader, "Bearer ")
  /\ Verifies(BearerToken(authHeader))

\* req.headers.authorization?.split(" ")[1], for a header with one space
SecondWord(authHeader) ==
  LET i == CHOOSE k \in 1..Len(authHeader) : CharAt(authHeader, k) = " " IN
  SubSeq(authHeader, i + 1, Len(authHeader))

AuthReply(op, status, req) == [op |-> op, status |-> status, req |-> req]

\* POST /register up to its await: 400, 409, or the request waits on the hash
RegisterRequest(rawEmail, password, name) ==
  LET email == normalizeEmail(rawEmail)
      req == <<rawEmail, password, name>> IN
  /\ IF ~RegisterValid(rawEmail, password, name)
     THEN /\ last' = AuthReply("register", 400, req)
          /\ UNCHANGED registering
     ELSE IF HasUser(users, email)
     THEN /\ last' = AuthReply("register", 409, req)
          /\ UNCHANGED registering
     ELSE /\ Len(registering) < MaxRegistering
          /\ Len(users) + Len(registering) < MaxUsers
          /\ registering' = Append(registering,
                                   [email |-> email, password |-> password,
                                    name |-> name, req |-> req])
          /\ UNCHANGED last
  /\ UNCHANGED <<users, tokenBlacklist, now>>
  /\ UNCHANGED <<graphVars, contentVars, feedVars>>

\* hashPassword resolves: the user is stored under a new id, then the token
\* is generated and the response sent
RegisterHashed(k) ==
  /\ k \in 1..Len(registering)
  /\ users' = Append(users, [id |-> Len(users) + 1,
                             email |-> registering[k].email,
                             name |-> registering[k].name,
                             password |-> registering[k].password])
  /\ last' = AuthReply("register", IF TokenGenerated THEN 201 ELSE 500,
                       registering[k].req)
  /\ registering' = Remove(registering, k)
  /\ UNCHANGED <<tokenBlacklist, now>>
  /\ UNCHANGED <<graphVars, contentVars, feedVars>>

\* POST /login
Login(rawEmail, password) ==
  LET email == normalizeEmail(rawEmail) IN
  /\ last' = AuthReply("login",
                       IF ~LoginValid(rawEmail, password) THEN 400
                       ELSE IF ~HasUser(users, email) THEN 401
                       ELSE IF UserOf(users, email).password # password THEN 401
                       ELSE IF TokenGenerated THEN 200 ELSE 500,
                       <<rawEmail, password>>)
  /\ UNCHANGED <<users, tokenBlacklist, registering, now>>
  /\ UNCHANGED <<graphVars, contentVars, feedVars>>

\* POST /logout behind authenticateToken
Logout(authHeader) ==
  /\ IF Authenticated(authHeader)
     THEN /\ tokenBlacklist' = tokenBlacklist \cup {SecondWord(authHeader)}
          /\ last' = AuthReply("logout", 200, <<authHeader>>)
     ELSE /\ last' = AuthReply("logout", 401, <<authHeader>>)
          /\ UNCHANGED tokenBlacklist
  /\ UNCHANGED <<users, registering, now>>
  /\ UNCHANGED <<graphVars, contentVars, feedVars>>

Registrations ==
  { <<"a@x.io", "Passw0rd", "Al">>, <<"A@x.io", "Passw0rd", "Al">>,
    <<"b@x.io", "Secret12", "Bo">>, <<"nobody", "Passw0rd", "Al">>,
    <<"a@x.io", "password", "Al">>, <<"b@x.io", "Secret12", "B">> }

Logins ==
  { <<"a@x.io", "Passw0rd">>, <<"A@x.io", "Secret12">>, <<"b@x.io", "short">>,
    <<"c@x.io", "Passw0rd">> }

AuthInit ==
  /\ nodes = SeedNodes
  /\ edges = SeedEdges
  /\ metadata = SeedMetadata
  /\ pending = <<>>
  /\ now = LoadTime
  /\ last = NoResponse
  /\ contentStore = <<>>
  /\ waiting = <<>>
  /\ feedStore = <<>>
  /\ lastHackerNewsSync = 0
  /\ syncing = <<>>
  /\ users = <<>>
  /\ tokenBlacklist = {}
  /\ registering = <<>>

AuthNext ==
  \/ \E r \in Registrations : RegisterRequest(r[1], r[2], r[3])
  \/ \E k \in 1..MaxRegistering : RegisterHashed(k)
  \/ \E r \in Logins : Login(r[1], r[2])
  \/ \E h \in Headers : Logout(h)

AuthSpec == AuthInit /\ [][AuthNext]_vars

-----------------------------------------------------------------------------
(* Properties *)

NodeIds == IdsOf(nodes)

\* the response in `last` is a successful one of the given route
Answered(op) == last.op = op /\ last.status = 200

\* C1: after any sequence of ingestions every edge of the store has its source
\* and its target among the node identities of the store (an edge with a
\* missing endpoint is refused).
C1_EdgeEndpointsExist ==
  \A i \in 1..Len(edges) :
    edges[i].source \in NodeIds /\ edges[i].target \in NodeIds

\* C2: the subgraph answered by GET /node/:id holds every edge of the store
\* whose two endpoints are both among the answered nodes.
C2_NoEdgeOmitted ==
  Answered("node") =>
    \A i \in 1..Len(edges) :
      (edges[i].source \in IdsOf(last.nodes) /\ edges[i].target \in IdsOf(last.nodes))
        => \E j \in 1..Len(last.edges) : last.edges[j] = edges[i]

\* two identities joined by an edge of the store, in either direction
Adjacent(egs, u, v) ==
  \E i \in 1..Len(egs) :
    \/ egs[i].source = u /\ egs[i].target = v
    \/ egs[i].source = v /\ egs[i].target = u

\* every identity an edge of the store or a node names
Vertices(ns, egs) ==
  IdsOf(ns) \cup {egs[i].source : i \in 1..Len(egs)} \cup {egs[i].target : i \in 1..Len(egs)}

\* the identities at undirected distance at most d from c
RECURSIVE Ball(_, _, _, _)
Ball(ns, egs, c, d) ==
  IF d = 0 THEN {c}
  ELSE LET inner == Ball(ns, egs, c, d - 1) IN
       inner \cup {v \in Vertices(ns, egs) : \E u \in inner : Adjacent(egs, u, v)}

\* C3: for every center in the graph and depth 1..3 the answered nodes are
\* exactly the nodes at undirected distance at most depth from the center,
\* the center among them; and each end of an edge between two nodes finds the
\* other end and the edge at depth 1.
C3_NodesWithinDepth ==
  /\ \A c \in NodeIds, d \in 1..3 :
       LET sub == Subgraph(nodes, edges, c, d) IN
       /\ IdsOf(sub.nodes) = NodeIds \cap Ball(nodes, edges, c, d)
       /\ c \in IdsOf(sub.nodes)
  /\ \A i \in 1..Len(edges) :
       (edges[i].source \in NodeIds /\ edges[i].target \in NodeIds) =>
         \A c \in {edges[i].source, edges[i].target} :
           LET sub == Subgraph(nodes, edges, c, 1) IN
           /\ {edges[i].source, edges[i].target} \subseteq IdsOf(sub.nodes)
           /\ \E j \in 1..Len(sub.edges) : sub.edges[j] = edges[i]

\* GET /node/:id answered at a depth that leaves out a node connected to the
\* center and reaches a node that is no neighbour of the center
C3_Witness ==
  /\ Answered("node")
  /\ last.req[2] \in 2..3
  /\ IdsOf(last.nodes) = NodeIds \cap Ball(nodes, edges, last.req[1], last.req[2])
  /\ \E n \in NodeIds \ IdsOf(last.nodes) : n \in Ball(nodes, edges, last.req[1], 5)
  /\ \E n \in IdsOf(last.nodes) : n \notin Ball(nodes, edges, last.req[1], 1)

\* C4: for a fixed graph and center the nodes of depth d + 1 include the nodes
\* of depth d, for d = 1 and d = 2.
C4_MonotoneInDepth ==
  \A c \in NodeIds, d \in 1..2 :
    IdsOf(Subgraph(nodes, edges, c, d).nodes)
      \subseteq IdsOf(Subgraph(nodes, edges, c, d + 1).nodes)

\* GET /node/:id answered at depth 3 with more nodes than depth 2 gives, and
\* depth 2 with more than depth 1
C4_Witness ==
  /\ Answered("node")
  /\ last.req[2] = 3
  /\ IdsOf(Subgraph(nodes, edges, last.req[1], 2).nodes) # IdsOf(last.nodes)
  /\ IdsOf(Subgraph(nodes, edges, last.req[1], 2).nodes) \subseteq IdsOf(last.nodes)
  /\ IdsOf(Subgraph(nodes, edges, last.req[1], 1).nodes)
       # IdsOf(Subgraph(nodes, edges, last.req[1], 2).nodes)

\* the step is POST /extract answering 200
IngestionSucceeds ==
  /\ now' = now + 1
  /\ last'.op = "extract"
  /\ last'.status = 200

\* C5: an ingestion that succeeds right after a successful ingestion of the
\* same contentId and the same entities reports 0 new nodes and 0 new edges
\* and leaves the nodes and the edges as they were.
C5_IngestTwiceIsIdempotent ==
  [][(Answered("extract") /\ IngestionSucceeds /\ last'.req = last.req)
       => /\ last'.newNodes = 0
          /\ last'.newEdges = 0
          /\ nodes' = nodes
          /\ edges' = edges]_vars

\* the second of two ingestions has answered 200: every entity it names got
\* its node and its edge from the one before, and it added nothing
C5_Witness ==
  /\ Answered("extract")
  /\ now = LoadTime + 2
  /\ last.req[1] # ""
  /\ Len(last.req[2]) = 2
  /\ last.req[2][1] # last.req[2][2]
  /\ last.newNodes = 0
  /\ last.newEdges = 0
  /\ \A i \in 1..Len(last.req[2]) :
       LET nodeId == NodeIdOf(last.req[2][i].type, last.req[2][i].name) IN
       /\ \E j \in 1..Len(nodes) : nodes[j].id = nodeId /\ nodes[j].createdAt = now - 1
       /\ \E j \in 1..Len(edges) :
            /\ edges[j].id = EdgeIdOf(last.req[1], nodeId)
            /\ edges[j].createdAt = now - 1

\* C6: no two nodes of the store have the same identity, whatever the
\* interleaving of the ingestion requests.
C6_NodeIdsUnique ==
  \A i, j \in 1..Len(nodes) : nodes[i].id = nodes[j].id => i = j

\* an ingestion whose result names one entity twice has answered 200 while
\* another request is still waiting on the AI service, and that entity is a node
C6_Witness ==
  /\ Answered("extract")
  /\ Len(pending) > 0
  /\ Len(last.req[2]) = 2
  /\ NodeIdOf(last.req[2][1].type, last.req[2][1].name)
       = NodeIdOf(last.req[2][2].type, last.req[2][2].name)
  /\ NodeIdOf(last.req[2][1].type, last.req[2][1].name) \in NodeIds
  /\ last.newNodes = 1

\* C7: an ingestion that names an entity whose node is in the graph already
\* sets that node's updatedAt to the time of the ingestion.
C7_ExistingNodeIsTouched ==
  [][IngestionSucceeds =>
       \A i \in 1..Len(last'.req[2]) :
         LET nodeId == NodeIdOf(last'.req[2][i].type, last'.req[2][i].name) IN
         HasNode(nodes, nodeId) =>
           \A j \in 1..Len(nodes') :
             nodes'[j].id = nodeId => nodes'[j].updatedAt = now']_vars

\* C8: metadata.totalNodes is the number of nodes of the store and
\* metadata.totalEdges the number of its edges, in every reachable state.
C8_MetadataCounts ==
  /\ metadata.totalNodes = Len(nodes)
  /\ metadata.totalEdges = Len(edges)

\* C9: a step that answers GET /node/:id, GET /search or GET /knowledge leaves
\* the nodes (in their stored order), the edges and the metadata of the store
\* as they were.
C9_QueriesReadOnly ==
  [][(last'.op \in {"node", "search", "knowledge"})
       => /\ nodes' = nodes
          /\ edges' = edges
          /\ metadata' = metadata]_vars

\* GET /knowledge has answered with no filter and a limit below the number of
\* nodes: the branch that sorts graphStore.nodes itself
C9_Witness ==
  /\ Answered("knowledge")
  /\ last.req = <<3, "", "">>
  /\ Len(nodes) > 3
  /\ Len(last.nodes) = 3

\* a ranks before b in GET /search: higher relevance, or equal relevance and
\* higher importance
RanksBefore(a, b, searchTerm) ==
  LET ra == calculateSearchRelevance(a, searchTerm)
      rb == calculateSearchRelevance(b, searchTerm) IN
  ra > rb \/ (ra = rb /\ a.importance > b.importance)

\* the nodes of the store that pass the filters of GET /search
Matching(q, types) ==
  {nodes[i] : i \in {j \in 1..Len(nodes) :
      /\ MatchesTerm(nodes[j], toLowerCase(q))
      /\ types # "" => nodes[j].type \in TypeList(types)}}

C11_NoZeroRelevance ==
  Answered("search") =>
    LET searchTerm == toLowerCase(last.req[1]) IN
    \A i \in 1..Len(last.nodes) :
      /\ calculateSearchRelevance(last.nodes[i], searchTerm) > 0
      /\ \/ includes(toLowerCase(last.nodes[i].label), searchTerm)
         \/ includes(toLowerCase(last.nodes[i].description), searchTerm)

\* GET /search has answered some nodes and left out a node of the store that
\* has the query neither in its label nor in its description
C11_Witness ==
  /\ Answered("search")
  /\ Len(last.nodes) > 1
  /\ Len(last.nodes) < SearchLimitOf(last.req[3])
  /\ \E i \in 1..Len(nodes) :
       /\ ~includes(toLowerCase(nodes[i].label), toLowerCase(last.req[1]))
       /\ ~includes(toLowerCase(nodes[i].description), toLowerCase(last.req[1]))
       /\ \A j \in 1..Len(last.nodes) : last.nodes[j] # nodes[i]

\* how the label matches the query: 3 exact, 2 prefix, 1 substring, 0 none
LabelTier(n, searchTerm) ==
  IF toLowerCase(n.label) = searchTerm THEN 3
  ELSE IF SubSeq(toLowerCase(n.label), 1, Len(searchTerm)) = searchTerm THEN 2
  ELSE IF includes(toLowerCase(n.label), searchTerm) THEN 1
  ELSE 0

\* C12: the relevance of a node is 100 for an exact label match, else 50 for a
\* label prefix, else 25 for a label substring, plus 10 when the description
\* has the query; GET /search answers exact matches before prefix matches
\* before substring matches, whatever the description adds.
C12_RelevanceTiers ==
  Answered("search") =>
    LET searchTerm == toLowerCase(last.req[1]) IN
    /\ \A i \in 1..Len(nodes) :
         LET tier == LabelTier(nodes[i], searchTerm)
             bonus == IF includes(toLowerCase(nodes[i].description), searchTerm)
                      THEN 10 ELSE 0
             r == calculateSearchRelevance(nodes[i], searchTerm) IN
         /\ tier = 3 => r = 100 + bonus
         /\ tier = 2 => r = 50 + bonus
         /\ tier = 1 => r = 25 + bonus
         /\ tier = 0 => r = bonus
    /\ \A i, j \in 1..Len(last.nodes) :
         i < j => LabelTier(last.nodes[i], searchTerm)
                    >= LabelTier(last.nodes[j], searchTerm)

\* GET /search has answered an exact match, then a prefix match of the same
\* importance without the description bonus, then a substring match with it
C12_Witness ==
  /\ Answered("search")
  /\ Len(last.nodes) >= 3
  /\ LET searchTerm == toLowerCase(last.req[1]) IN
     /\ LabelTier(last.nodes[1], searchTerm) = 3
     /\ LabelTier(last.nodes[2], searchTerm) = 2
     /\ LabelTier(last.nodes[3], searchTerm) = 1
     /\ last.nodes[1].importance = last.nodes[2].importance
     /\ calculateSearchRelevance(last.nodes[2], searchTerm) = 50
     /\ calculateSearchRelevance(last.nodes[3], searchTerm) = 35

\* the nodes of the store that pass the type and text filters of GET /knowledge
Candidates(types, search) ==
  {nodes[i] : i \in {j \in 1..Len(nodes) :
      /\ types # "" => nodes[j].type \in TypeList(types)
      /\ search # "" => MatchesTerm(nodes[j], toLowerCase(search))}}

\* C13: when more nodes pass the filters of GET /knowledge than `limit`
\* (default 100), exactly `limit` of them are answered and none of them is
\* less important than a candidate left out; otherwise all of them are answered.
C13_TopByImportance ==
  Answered("knowledge") =>
    LET candidates == Candidates(last.req[2], last.req[3])
        limit == KnowledgeLimitOf(last.req[1])
        answered == {last.nodes[i] : i \in 1..Len(last.nodes)} IN
    /\ Cardinality(answered) = Len(last.nodes)
    /\ answered \subseteq candidates
    /\ IF Cardinality(candidates) > limit
       THEN /\ Len(last.nodes) = limit
            /\ \A a \in answered, c \in candidates \ answered :
                 a.importance >= c.importance
       ELSE answered = candidates

\* GET /knowledge has answered with a type filter and a limit that leaves a
\* candidate out
C13_Witness ==
  /\ Answered("knowledge")
  /\ last.req[2] # ""
  /\ Len(last.nodes) = KnowledgeLimitOf(last.req[1])
  /\ Cardinality(Candidates(last.req[2], last.req[3])) > Len(last.nodes)
  /\ \E c \in Candidates(last.req[2], last.req[3]) :
       \A i \in 1..Len(last.nodes) : last.nodes[i] # c

\* C14: GET /node/:id answers a subgraph only for a center of the store and a
\* depth within 1..3 (or none given): a depth outside 1..3 is answered 400, a
\* missing center 404, neither with any node or edge, and the store stays as
\* it was.
C14_SubgraphErrors ==
  [][(last'.op = "node") =>
       LET id == last'.req[1]
           depth == last'.req[2]
           inRange == depth = NoParam \/ depth \in 1..3 IN
       /\ ~inRange => last'.status = 400
       /\ (inRange /\ id \notin NodeIds) => last'.status = 404
       /\ (inRange /\ id \in NodeIds) =>
            /\ last'.status = 200
            /\ id \in IdsOf(last'.nodes)
       /\ last'.status # 200 => (last'.nodes = <<>> /\ last'.edges = <<>>)
       /\ nodes' = nodes
       /\ edges' = edges
       /\ metadata' = metadata]_vars

\* GET /node/:id has refused depth 0 for a center that is in the store
C14_Witness ==
  /\ last.op = "node"
  /\ last.status = 400
  /\ last.req[2] = 0
  /\ last.req[1] \in NodeIds

\* C15: when the call to the AI service fails or times out, the request is
\* answered 503 and the nodes, the edges and the metadata stay as they were.
C15_ExtractionFailure ==
  [][(Len(pending') < Len(pending) /\ now' = now) =>
       /\ last'.op = "extract"
       /\ last'.status = 503
       /\ nodes' = nodes
       /\ edges' = edges
       /\ metadata' = metadata]_vars

\* a request whose call failed has been answered 503 after an ingestion that
\* added nodes and edges
C15_Witness ==
  /\ last.op = "extract"
  /\ last.status = 503
  /\ Len(last.req) = 1
  /\ Len(nodes) > Len(SeedNodes)
  /\ Len(edges) > Len(SeedEdges)
  /\ metadata.totalNodes = Len(nodes)

\* the node types of the data model
NodeTypes ==
  {"person", "organization", "topic", "content", "concept", "author", "entity"}

\* C22: every node of the store has a type of the data model, whatever the
\* keys of the extraction result.
C22_NodeTypesValid ==
  \A i \in 1..Len(nodes) : nodes[i].type \in NodeTypes

\* C23: no two edges of the store have the same id, no two have the same
\* (source, target, type), and after an ingestion that names a content each
\* of its relations is in the store exactly once.
C23_EdgesUnique ==
  /\ \A i, j \in 1..Len(edges) :
       (\/ edges[i].id = edges[j].id
        \/ /\ edges[i].source = edges[j].source
           /\ edges[i].target = edges[j].target
           /\ edges[i].type = edges[j].type) => i = j
  /\ (Answered("extract") /\ last.req[1] # "") =>
       \A k \in 1..Len(last.req[2]) :
         Cardinality({i \in 1..Len(edges) :
                        /\ edges[i].source = last.req[1]
                        /\ edges[i].target = NodeIdOf(last.req[2][k].type,
                                                      last.req[2][k].name)
                        /\ edges[i].type = "mentions"}) = 1

\* the second ingestion for a content has answered: it named a relation the
\* first one stored and a relation that is new
C23_Witness ==
  /\ Answered("extract")
  /\ last.req[1] # ""
  /\ Len(last.req[2]) = 2
  /\ last.newEdges = 1
  /\ \E i \in 1..Len(edges) :
       /\ edges[i].source = last.req[1]
       /\ edges[i].type = "mentions"
       /\ edges[i].createdAt < now
       /\ \E k \in 1..Len(last.req[2]) :
            edges[i].target = NodeIdOf(last.req[2][k].type, last.req[2][k].name)

EdgeIds == {edges[i].id : i \in 1..Len(edges)}

\* C24: no step removes a node or an edge, and only a step that processes an
\* extraction result adds one.
C24_OnlyAdditive ==
  [][/\ NodeIds \subseteq IdsOf(nodes')
     /\ EdgeIds \subseteq {edges'[i].id : i \in 1..Len(edges')}
     /\ (IdsOf(nodes') # NodeIds \/ Len(nodes') # Len(nodes)
           \/ Len(edges') # Len(edges))
          => (last'.op = "extract" /\ now' = now + 1)]_vars

\* GET /knowledge has answered under a limit after two ingestions that added
\* nodes and edges
C24_Witness ==
  /\ Answered("knowledge")
  /\ now = LoadTime + 2
  /\ Len(last.nodes) < Len(nodes)
  /\ Len(nodes) > Len(SeedNodes) + 1
  /\ Len(edges) > Len(SeedEdges) + 1
  /\ last.req[2] = ""
  /\ last.req[3] = ""

\* C26: what GET /knowledge answers is a store to which every ingestion is
\* applied wholly or not at all: without filters and under the default limit
\* the answered nodes are as many as the answered metadata counts, as they
\* are before the first ingestion and after every ingestion that ran to its
\* end.
C26_QuerySeesWholeIngestions ==
  (Answered("knowledge") /\ last.req = <<NoParam, "", "">>) =>
    last.metadata.totalNodes = Len(last.nodes)

\* C27: the edges answered by GET /node/:id hold each edge of the store at
\* most once.
C27_EdgesOnce ==
  Answered("node") =>
    \A i, j \in 1..Len(last.edges) : last.edges[i] = last.edges[j] => i = j

\* the item of the content store with the given id
ItemOf(id) == contentStore[IndexOf(contentStore, id)]

\* GET /similar/:id has answered from the tag fallback
FallbackAnswered == last.op = "similar" /\ last.status = 200 /\ last.fallback

\* C16: when the call to the AI service fails, GET /similar/:id answers 200
\* from the tag fallback: the target is not among the answered items, they are
\* the `limit` (default 10) most similar of the other items or all of them,
\* in the order of non-increasing tag similarity to the target, and no item
\* left out is more similar than an answered one.
C16_FallbackOrder ==
  (last.op = "similar" /\ last.fallback) =>
    /\ last.status = 200
    /\ LET target == ItemOf(last.req[1])
           limit == SimilarLimitOf(last.req[2])
           others == {contentStore[i].id : i \in 1..Len(contentStore)} \ {last.req[1]}
           answered == {last.items[i].id : i \in 1..Len(last.items)}
           similarity(id) == calculateTagSimilarity(target.tags, ItemOf(id).tags) IN
       /\ answered \subseteq others
       /\ Cardinality(answered) = Len(last.items)
       /\ Len(last.items) = IF Cardinality(others) < limit
                            THEN Cardinality(others) ELSE limit
       /\ \A i, j \in 1..Len(last.items) :
            i < j => ~Less(similarity(last.items[i].id), similarity(last.items[j].id))
       /\ \A o \in others \ answered :
            \A i \in 1..Len(last.items) :
              ~Less(similarity(last.items[i].id), similarity(o))

\* the fallback has answered one item under limit 1, and an item that stands
\* before it in the store and is less similar to the target was left out
C16_Witness ==
  /\ FallbackAnswered
  /\ last.req[2] = 1
  /\ Len(last.items) = 1
  /\ \E i, j \in 1..Len(contentStore) :
       /\ i < j
       /\ contentStore[j].id = last.items[1].id
       /\ contentStore[i].id # last.req[1]
       /\ Less(calculateTagSimilarity(ItemOf(last.req[1]).tags, contentStore[i].tags),
               calculateTagSimilarity(ItemOf(last.req[1]).tags, contentStore[j].tags))

\* the tags of a list, lowercased, as a set
LowerTags(tags) == {toLowerCase(tags[i]) : i \in 1..Len(tags)}

\* C17: the tag similarity of two tag lists is the same in both orders, is 0
\* when both lists are empty, and is 1 when both lists hold the same
\* non-empty set of tags, case and repetitions ignored.
C17_TagSimilarity ==
  \A i, j \in 1..Len(contentStore) :
    LET a == contentStore[i].tags
        b == contentStore[j].tags IN
    /\ Same(calculateTagSimilarity(a, b), calculateTagSimilarity(b, a))
    /\ (a = <<>> /\ b = <<>>) => Same(calculateTagSimilarity(a, b), Rat(0, 1))
    /\ (LowerTags(a) = LowerTags(b) /\ LowerTags(a) # {})
         => Same(calculateTagSimilarity(a, b), Rat(1, 1))

\* the fallback has answered for a target, first with an item whose tags are
\* the target's in another case and with a repetition (similarity 1), then
\* with an item without tags (similarity 0)
C17_Witness ==
  /\ FallbackAnswered
  /\ Len(last.items) = 2
  /\ LET target == ItemOf(last.req[1]) IN
     /\ last.items[1].tags # target.tags
     /\ Len(last.items[1].tags) # Len(target.tags)
     /\ LowerTags(last.items[1].tags) = LowerTags(target.tags)
     /\ Same(calculateTagSimilarity(target.tags, last.items[1].tags), Rat(1, 1))
     /\ last.items[2].tags = <<>>
     /\ Same(calculateTagSimilarity(last.items[2].tags, last.items[2].tags), Rat(0, 1))

\* ages in hours at which the trending score is compared: the floor of the
\* decay is reached at 90 hours
Ages == {0, 1, 24, 89, 90, 91, 200}

\* the item as it would be at the given age
AtAge(item, age) == [item EXCEPT !.publishedAt = now - age]

\* the trending score of an item of the store at the given age
TrendingAtAge(item, age) == calculateTrendingScore(AtAge(item, age), now)

\* C18 as stated: for fixed counts and base score the older of two items that
\* differ only in age has the strictly smaller trending score, at every age
\* from 0 on.
C18_StrictlyDecreasingInAge ==
  \A i \in 1..Len(contentStore) :
    \A a, b \in Ages :
      a < b => Less(TrendingAtAge(contentStore[i], b), TrendingAtAge(contentStore[i], a))

\* C18, amended: for fixed counts and base score the trending score never
\* grows with the age; it is strictly decreasing up to 90 hours when the
\* interaction score and the base score are positive, and constant from 90
\* hours on, where the decay stays at its floor 0.1.
C18_DecreasingDownToFloor ==
  \A i \in 1..Len(contentStore) :
    LET item == contentStore[i]
        positive == /\ Less(Rat(0, 1), interactionScore(item.interactions))
                    /\ item.score > 0 IN
    \A a, b \in Ages :
      a < b =>
        /\ ~Less(TrendingAtAge(item, a), TrendingAtAge(item, b))
        /\ (b <= 90 /\ positive) => Less(TrendingAtAge(item, b), TrendingAtAge(item, a))
        /\ a >= 90 => Same(TrendingAtAge(item, a), TrendingAtAge(item, b))

\* GET /trending has answered two items that differ in age only, the older
\* one with the smaller score and already at the floor of the decay
C18_Witness ==
  /\ last.op = "trending"
  /\ last.status = 200
  /\ \E i, j \in 1..Len(last.items) :
       /\ last.items[i].interactions = last.items[j].interactions
       /\ last.items[i].score = last.items[j].score
       /\ last.items[i].publishedAt > last.items[j].publishedAt
       /\ now - last.items[j].publishedAt > 90
       /\ Less(last.items[j].trendingScore, last.items[i].trendingScore)
       /\ Same(last.items[j].trendingScore, TrendingAtAge(last.items[j], 200))

\* the step raises a count of item i of the store
RaisesCount(i) == contentStore'[i].interactions # contentStore[i].interactions

\* C19 as stated: a request that raises the views, likes, bookmarks or shares
\* of an item strictly raises its trending score, whatever its base score.
C19_StrictlyIncreasingInCounts ==
  [][\A i \in 1..Len(contentStore) :
       (RaisesCount(i) /\ contentStore[i].publishedAt <= now) =>
         Less(calculateTrendingScore(contentStore[i], now),
              calculateTrendingScore(contentStore'[i], now'))]_vars

\* C19, amended: a request that raises the views, likes, bookmarks or shares
\* of an item whose base score is greater than 0 strictly raises its trending
\* score; at base score 0 the trending score is 0 whatever the counts.
C19_IncreasingForPositiveScore ==
  [][\A i \in 1..Len(contentStore) :
       (RaisesCount(i) /\ contentStore[i].publishedAt <= now) =>
         IF contentStore[i].score > 0
         THEN Less(calculateTrendingScore(contentStore[i], now),
                   calculateTrendingScore(contentStore'[i], now'))
         ELSE /\ Same(calculateTrendingScore(contentStore[i], now), Rat(0, 1))
              /\ Same(calculateTrendingScore(contentStore'[i], now'), Rat(0, 1))]_vars

\* a view of an item with a positive base score has been answered, and the
\* item's trending score is above what it was with one view less
C19_Witness ==
  /\ last.op = "content"
  /\ last.status = 200
  /\ LET item == ItemOf(last.req[1])
         before == [item EXCEPT !.interactions.views = @ - 1] IN
     /\ item.score > 0
     /\ item.publishedAt <= now
     /\ Less(calculateTrendingScore(before, now), calculateTrendingScore(item, now))

\* C20: for an item published later than the current time the age counts as 0
\* hours: the decay is exactly 1 and the trending score is the interaction
\* score times the base score; and the decay is at most 1 for every item.
C20_FutureAgeClamped ==
  \A i \in 1..Len(contentStore) :
    LET item == contentStore[i]
        decay == ageDecay(ageInHours(item, now)) IN
    /\ item.publishedAt > now =>
         /\ Same(decay, Rat(1, 1))
         /\ Same(calculateTrendingScore(item, now),
                 Times(interactionScore(item.interactions), Rat(item.score, 100)))
    /\ ~Less(Rat(1, 1), decay)

\* ten times the weighted count of the interactions of an item
TenthsOf(item) ==
  item.interactions.views + 10 * item.interactions.likes
    + 20 * item.interactions.bookmarks + 30 * item.interactions.shares

\* the trending score of an answered item is the stated one at the time t
TrendingScoreAsStated(item, t) ==
  LET ts == item.trendingScore
      tenAge == 10 + (t - item.publishedAt) IN
  /\ IF tenAge = 0
     THEN ts.kind = IF TenthsOf(item) * item.score > 0 THEN "inf" ELSE "nan"
     ELSE /\ ts.kind = "finite"
          /\ IF tenAge > 0 /\ tenAge <= 100
             THEN ts.num * tenAge * 100 = ts.den * TenthsOf(item) * item.score
             ELSE ts.num * 10000 = ts.den * TenthsOf(item) * item.score
  /\ (/\ t - item.publishedAt = 24
      /\ item.interactions = Interactions(100, 10, 2, 1)
      /\ item.score = 100)
       => /\ Same(interactionScore(item.interactions), Rat(27, 1))
          /\ ts = Rat(135, 17)

\* C21: the trending score GET /trending answers for an item is
\* (views*0.1 + likes*1.0 + bookmarks*2.0 + shares*3.0)
\*   * max(0.1, 1 / (1 + ageInHours*0.1)) * baseScore;
\* an item 24 hours old with views 100, likes 10, bookmarks 2, shares 1 and
\* base score 1.0 has the interaction score 27 and the trending score 27/3.4.
C21_TrendingFormula ==
  [][(last' # last /\ last'.op = "trending" /\ last'.status = 200) =>
       \A i \in 1..Len(last'.items) : TrendingScoreAsStated(last'.items[i], now)]_vars

\* GET /trending has answered the item of the scenario at the age of 24 hours
C21_Witness ==
  /\ last.op = "trending"
  /\ last.status = 200
  /\ \E i \in 1..Len(last.items) :
       /\ now - last.items[i].publishedAt = 24
       /\ last.items[i].interactions = Interactions(100, 10, 2, 1)
       /\ last.items[i].score = 100
       /\ last.items[i].trendingScore = Rat(135, 17)

\* C25: the items GET / answers are unfiltered items of the store in
\* non-increasing order of relevanceScore*0.7 + ageInDays*0.3, so of two
\* answered items with equal relevance the one published earlier comes first.
C25_FeedOrder ==
  [][(last' # last /\ last'.op = "feed" /\ last'.status = 200) =>
       LET items == last'.items IN
       /\ \A i \in 1..Len(items) :
            /\ ~items[i].isFiltered
            /\ \E k \in 1..Len(feedStore') : feedStore'[k] = items[i]
       /\ \A i, j \in 1..Len(items) :
            i < j =>
              /\ 7 * DayMinutes * (items[i].relevanceScore - items[j].relevanceScore)
                   >= 3 * (items[i].publishedAt - items[j].publishedAt)
              /\ items[i].relevanceScore = items[j].relevanceScore
                   => items[i].publishedAt <= items[j].publishedAt]_vars

\* GET / has answered two items of equal relevance, the older one first, and
\* an older item before a newer one of higher relevance
C25_Witness ==
  /\ last.op = "feed"
  /\ last.status = 200
  /\ \E i, j \in 1..Len(last.items) :
       /\ i < j
       /\ last.items[i].relevanceScore = last.items[j].relevanceScore
       /\ last.items[i].publishedAt < last.items[j].publishedAt
  /\ \E i, j \in 1..Len(last.items) :
       /\ i < j
       /\ last.items[i].relevanceScore < last.items[j].relevanceScore

\* no two items of the feed store share a URL
FeedUrlsUnique ==
  \A i, j \in 1..Len(feedStore) : feedStore[i].url = feedStore[j].url => i = j

\* C30: the Hacker News sync runs at most once per 30 minutes: the calls of
\* syncContent that are fetching or filtering started more than 30 minutes
\* apart and more than 30 minutes after the start of the last completed sync;
\* and no two items of the feed store share a URL.
C30_OneSyncPerWindow ==
  /\ \A i, j \in 1..Len(syncing) :
       i < j => syncing[j].start - syncing[i].start > SyncInterval
  /\ \A i \in 1..Len(syncing) :
       syncing[i].start - lastHackerNewsSync > SyncInterval
  /\ FeedUrlsUnique

\* C28: no two stored users have the same email, whatever the interleaving of
\* the register requests.
C28_EmailsUnique ==
  \A i, j \in 1..Len(users) : users[i].email = users[j].email => i = j

\* C29: a request that presents a blacklisted token to POST /logout, which
\* authenticateToken guards, is answered 401 and changes nothing.
C29_BlacklistedRejected ==
  [][\A h \in Headers :
       (/\ Logout(h)
        /\ startsWith(h, "Bearer ")
        /\ BearerToken(h) \in tokenBlacklist)
         => (last'.status = 401 /\ tokenBlacklist' = tokenBlacklist)]_vars

=============================================================================
